---------------------------- MODULE Spec2Model ----------------------------
(***************************************************************************)
(* State-machine models of the four host-side serial scripts:              *)
(*                                                                         *)
(*   driver-vib/test.py            (variables t1_*,  specification SpecAck)  *)
(*   driver-vib/test2.py           (variables t2_*,  specification SpecReply)*)
(*   driver-vib-udp/test.py        (variables udp_*, specification SpecVib)  *)
(*   driver-vib-udp/vib-test-1.py  (variables vt_*,  specification SpecTrial)*)
(*                                                                         *)
(* Text is modelled as a sequence of fragments (characters, or longer      *)
(* literal pieces where the code never looks inside them); startswith,     *)
(* "in", strip and decimal formatting are computed on those sequences.     *)
(* Times are in milliseconds.                                              *)
(***************************************************************************)
EXTENDS Integers, Sequences, FiniteSets, TLC

VARIABLES
    \* ---- driver-vib/test.py ----
    t1_pc,        \* position of main / send_cmd_wait_ack
    t1_site,      \* which call of send_cmd_wait_ack is running
    t1_cycles,    \* int(sys.argv[2])
    t1_c,         \* index of the cycle loop
    t1_m,         \* motor of the inner loop
    t1_cmd_id,    \* cmd_id
    t1_sent,      \* every line written to the port, in order
    t1_elapsed,   \* time.time() - (deadline - ACK_TIMEOUT)
    t1_resp,      \* the value send_cmd_wait_ack returned (<<>>: none)
    t1_meta,      \* what the device meant by the returned line
    t1_seen,      \* the device sent the ACK/ERR of cmd_id during this call
    t1_replies,   \* how each call so far ended: "ACK", "ERR" or "timeout"
    t1_closed,    \* number of ser.close() calls
    \* ---- driver-vib/test2.py ----
    t2_pc,        \* position of main / cmd_expect_ok / read_reply
    t2_ip,        \* index of the running statement of main's command sequence
    t2_sent,      \* every line written to the port, in order
    t2_elapsed,   \* time.time() - (end - timeout_s) of the running read_reply
    t2_resp,      \* the value read_reply returned (<<>>: none)
    t2_for,       \* the command the device answered with the returned line
    t2_kind,      \* what the device meant by the returned line
    t2_skipped,   \* read_reply read an OK/ERR line of the device and went on
    t2_passed,    \* read_reply read a line that is no reply and went on
    t2_outcomes,  \* how each cmd_expect_ok so far ended: "OK", "ERR" or "timeout"
    t2_pending,   \* device: commands received and not yet answered
    t2_wire,      \* lines the device has sent and the host has not read
    t2_closed,    \* number of ser.close() calls
    \* ---- driver-vib-udp/test.py ----
    udp_pc,       \* position in vibrate_n / vibrate_once
    udp_n,        \* n
    udp_mask,     \* mask
    udp_amp,      \* amp
    udp_on_ms,    \* on_ms
    udp_off_ms,   \* off_ms
    udp_i,        \* i of "for i in range(n)"
    udp_log,      \* the lines sent and the sleeps taken, in order
    \* ---- driver-vib-udp/vib-test-1.py ----
    vt_pc,        \* position of the main thread
    vt_ip,        \* index into the init sequence
    vt_trial,     \* trial
    vt_now,       \* time.time(), ms since the script started
    vt_key_q,     \* key_q: SPACE key-down timestamps
    vt_ts_cmd,    \* ts_cmd
    vt_ts_key,    \* ts_key
    vt_timers,    \* Timer threads started and not yet run
    vt_wake,      \* when the blocking call of main (sleep, get) times out
    vt_sent,      \* every line written to the port, in order, with its thread
    vt_db,        \* the rows of table vib_test
    vt_outcome,   \* how the wait of each trial so far ended: "key" or "timeout"
    vt_written,   \* trials for which db_insert ran
    vt_presses,   \* SPACE key-downs so far
    vt_eps,       \* milliseconds spent between statements of main so far
    vt_interrupted, \* KeyboardInterrupt was raised
    vt_open       \* the port, the listener and the db connection are open

varsA == <<t1_pc, t1_site, t1_cycles, t1_c, t1_m, t1_cmd_id, t1_sent,
           t1_elapsed, t1_resp, t1_meta, t1_seen, t1_replies, t1_closed>>

varsB == <<t2_pc, t2_ip, t2_sent, t2_elapsed, t2_resp, t2_for, t2_kind,
           t2_skipped, t2_passed, t2_outcomes, t2_pending, t2_wire, t2_closed>>

varsC == <<udp_pc, udp_n, udp_mask, udp_amp, udp_on_ms, udp_off_ms, udp_i, udp_log>>

varsD == <<vt_pc, vt_ip, vt_trial, vt_now, vt_key_q, vt_ts_cmd, vt_ts_key,
           vt_timers, vt_wake, vt_sent, vt_db, vt_outcome, vt_written, vt_presses,
           vt_eps, vt_interrupted, vt_open>>

vars == <<varsA, varsB, varsC, varsD>>

----------------------------------------------------------------------------
(* Bounds of the model *)

\* largest [cycles] argument of driver-vib/test.py
MaxCycles == 2
\* largest id the device of driver-vib/test.py puts in a line
MaxDevId == 12
\* most lines of driver-vib/test2.py's device waiting unread in the input buffer
MaxWire == 2
\* largest n given to vibrate_n of driver-vib-udp/test.py
MaxN == 3
\* most SPACE key-downs during one run of driver-vib-udp/vib-test-1.py
MaxPresses == 1
\* most milliseconds that pass between statements of its main thread in one run
MaxEps == 1

----------------------------------------------------------------------------
(* Text *)

Digit(d) == CASE d = 0 -> "0" [] d = 1 -> "1" [] d = 2 -> "2" [] d = 3 -> "3"
              [] d = 4 -> "4" [] d = 5 -> "5" [] d = 6 -> "6" [] d = 7 -> "7"
              [] d = 8 -> "8" [] d = 9 -> "9"

\* str(n) of a non-negative int, as the f-strings format it
RECURSIVE Str(_)
Str(n) == IF n < 10 THEN <<Digit(n)>> ELSE Str(n \div 10) \o <<Digit(n % 10)>>

Whitespace == {" ", "\t", "\n", "\r"}

RECURSIVE LStrip(_)
LStrip(s) == IF s # <<>> /\ Head(s) \in Whitespace THEN LStrip(Tail(s)) ELSE s

RECURSIVE RStrip(_)
RStrip(s) == IF s # <<>> /\ s[Len(s)] \in Whitespace
             THEN RStrip(SubSeq(s, 1, Len(s) - 1)) ELSE s

\* str.strip()
Strip(s) == RStrip(LStrip(s))

\* s.startswith(p)
StartsWith(s, p) == Len(s) >= Len(p) /\ SubSeq(s, 1, Len(p)) = p

\* p in s
Contains(s, p) ==
    \E i \in 1..(Len(s) - Len(p) + 1) : SubSeq(s, i, i + Len(p) - 1) = p

ACK == <<"A", "C", "K">>
ERR == <<"E", "R", "R">>
OK  == <<"O", "K">>

----------------------------------------------------------------------------
(* driver-vib/test.py *)

\* ACK_TIMEOUT = 2.0 s
ACK_TIMEOUT == 2000
\* serial.Serial(port, BAUD, timeout=0.2): the longest one readline() blocks
T1_SER_TIMEOUT == 200

\* f"id={cmd_id}"
IdTag(id) == <<"i", "d", "=">> \o Str(id)

\* line = f"{cmd} id={cmd_id}\n"
CmdLine(cmd, id) == cmd \o <<" ">> \o IdTag(id) \o <<"\n">>

StopCmd == <<"STOP">>
\* f"VIB m={m} amp=80 n=1 on=100 off=0 gap=2000 mode=OVR"
VibCmd(m) == <<"VIB m=">> \o Str(m) \o <<" amp=80 n=1 on=100 off=0 gap=2000 mode=OVR">>

\* The lines the device may put on the wire: any tag with any id, an empty
\* line, boot noise.  meta is what the device meant; the host sees only text.
DevKindsA == {"ACK", "ERR", "LOG"}
KindText(k) == CASE k = "ACK" -> ACK [] k = "ERR" -> ERR
                 [] k = "LOG" -> <<"L", "O", "G">>
DevLineA(k, id) ==
    [text |-> KindText(k) \o <<" ">> \o IdTag(id) \o <<"\r", "\n">>,
     kind |-> k, id |-> id]
NoMeta == [kind |-> "none", id |-> 0]
DevLinesA ==
    {DevLineA(k, id) : k \in DevKindsA, id \in 1..MaxDevId}
      \cup {[text |-> <<"\r", "\n">>, kind |-> "empty", id |-> 0],
            [text |-> <<"b", "o", "o", "t", "\n">>, kind |-> "noise", id |-> 0]}

\* line 25: f"id={cmd_id}" in resp and (resp.startswith("ACK") or resp.startswith("ERR"))
MatchesAck(resp, id) ==
    Contains(resp, IdTag(id)) /\ (StartsWith(resp, ACK) \/ StartsWith(resp, ERR))

\* variant: main never notices an ERR answer
IsErrResp_never(resp) == FALSE

\* line 62: resp.startswith("ERR")
IsErrResp(resp) == StartsWith(resp, ERR)

\* the variables of the other scripts
othersA == <<varsB, varsC, varsD>>

\* the command the running call sends
T1Cmd == IF t1_site = "vib" THEN VibCmd(t1_m) ELSE StopCmd

StartA ==
    /\ t1_cycles \in 0..MaxCycles
    /\ t1_pc = "write"
    /\ t1_site = "stop0"
    /\ t1_c = 0
    /\ t1_m = 1
    /\ t1_cmd_id = 1
    /\ t1_sent = <<>>
    /\ t1_elapsed = 0
    /\ t1_resp = <<>>
    /\ t1_meta = NoMeta
    /\ t1_seen = FALSE
    /\ t1_replies = <<>>
    /\ t1_closed = 0

\* lines 15-19: write the line, flush, take the deadline
T1Write ==
    /\ t1_pc = "write"
    /\ t1_sent' = Append(t1_sent, CmdLine(T1Cmd, t1_cmd_id))
    /\ t1_elapsed' = 0
    /\ t1_resp' = <<>>
    /\ t1_meta' = NoMeta
    /\ t1_seen' = FALSE
    /\ t1_pc' = "poll"
    /\ UNCHANGED <<t1_site, t1_cycles, t1_c, t1_m, t1_cmd_id, t1_replies,
                   t1_closed>>
    /\ UNCHANGED othersA

\* lines 20-23: one loop iteration whose readline() timed out (b"")
T1PollEmpty ==
    /\ t1_pc = "poll"
    /\ t1_elapsed < ACK_TIMEOUT
    /\ t1_elapsed' = t1_elapsed + T1_SER_TIMEOUT
    /\ UNCHANGED <<t1_pc, t1_site, t1_cycles, t1_c, t1_m, t1_cmd_id, t1_sent,
                   t1_resp, t1_meta, t1_seen, t1_replies, t1_closed>>
    /\ UNCHANGED othersA

\* lines 20-26: one loop iteration whose readline() got a line after d ms
T1PollLine ==
    /\ t1_pc = "poll"
    /\ t1_elapsed < ACK_TIMEOUT
    /\ \E ln \in DevLinesA, d \in {0, T1_SER_TIMEOUT} :
         LET resp == Strip(ln.text) IN
         /\ t1_elapsed' = t1_elapsed + d
         /\ t1_seen' = (t1_seen \/ (ln.kind \in {"ACK", "ERR"} /\ ln.id = t1_cmd_id))
         /\ IF resp # <<>> /\ MatchesAck(resp, t1_cmd_id)
            THEN /\ t1_resp' = resp
                 /\ t1_meta' = [kind |-> ln.kind, id |-> ln.id]
                 /\ t1_replies' = Append(t1_replies,
                                     IF StartsWith(resp, ACK) THEN "ACK" ELSE "ERR")
                 /\ t1_pc' = "returned"
            ELSE UNCHANGED <<t1_resp, t1_meta, t1_replies, t1_pc>>
    /\ UNCHANGED <<t1_site, t1_cycles, t1_c, t1_m, t1_cmd_id, t1_sent, t1_closed>>
    /\ UNCHANGED othersA

\* line 28: raise TimeoutError
T1Timeout ==
    /\ t1_pc = "poll"
    /\ t1_elapsed >= ACK_TIMEOUT
    /\ t1_pc' = "raised"
    /\ t1_replies' = Append(t1_replies, "timeout")
    /\ UNCHANGED <<t1_site, t1_cycles, t1_c, t1_m, t1_cmd_id, t1_sent,
                   t1_elapsed, t1_resp, t1_meta, t1_seen, t1_closed>>
    /\ UNCHANGED othersA

\* lines 48-55: the first STOP; its exception is swallowed; cmd_id += 1
T1AfterStop0 ==
    /\ t1_site = "stop0"
    /\ t1_pc \in {"returned", "raised"}
    /\ t1_cmd_id' = t1_cmd_id + 1
    /\ t1_c' = 0
    /\ t1_m' = 1
    /\ t1_site' = IF t1_cycles > 0 THEN "vib" ELSE "stopEnd"
    /\ t1_pc' = "write"
    /\ UNCHANGED <<t1_cycles, t1_sent, t1_elapsed, t1_resp, t1_meta, t1_seen,
                   t1_replies, t1_closed>>
    /\ UNCHANGED othersA

\* lines 60-67: a VIB answered and not ERR: cmd_id += 1, next motor or cycle
T1AfterVibOk ==
    /\ t1_site = "vib"
    /\ t1_pc = "returned"
    /\ ~IsErrResp(t1_resp)
    /\ t1_cmd_id' = t1_cmd_id + 1
    /\ IF t1_m < 3
       THEN /\ t1_m' = t1_m + 1
            /\ UNCHANGED <<t1_c, t1_site>>
       ELSE /\ t1_m' = 1
            /\ t1_c' = t1_c + 1
            /\ t1_site' = IF t1_c + 1 < t1_cycles THEN "vib" ELSE "stopEnd"
    /\ t1_pc' = "write"
    /\ UNCHANGED <<t1_cycles, t1_sent, t1_elapsed, t1_resp, t1_meta, t1_seen,
                   t1_replies, t1_closed>>
    /\ UNCHANGED othersA

\* lines 62-63, 73-74: a VIB answered ERR: return, through finally: ser.close()
T1AfterVibErr ==
    /\ t1_site = "vib"
    /\ t1_pc = "returned"
    /\ IsErrResp(t1_resp)
    /\ t1_pc' = "closed"
    /\ t1_closed' = t1_closed + 1
    /\ UNCHANGED <<t1_site, t1_cycles, t1_c, t1_m, t1_cmd_id, t1_sent,
                   t1_elapsed, t1_resp, t1_meta, t1_seen, t1_replies>>
    /\ UNCHANGED othersA

\* lines 60, 73-74: a VIB timed out: TimeoutError leaves main through finally
T1AfterVibRaise ==
    /\ t1_site = "vib"
    /\ t1_pc = "raised"
    /\ t1_pc' = "closed"
    /\ t1_closed' = t1_closed + 1
    /\ UNCHANGED <<t1_site, t1_cycles, t1_c, t1_m, t1_cmd_id, t1_sent,
                   t1_elapsed, t1_resp, t1_meta, t1_seen, t1_replies>>
    /\ UNCHANGED othersA

\* lines 70-74: the final STOP answered or timed out, then finally: ser.close()
T1AfterStopEnd ==
    /\ t1_site = "stopEnd"
    /\ t1_pc \in {"returned", "raised"}
    /\ t1_pc' = "closed"
    /\ t1_closed' = t1_closed + 1
    /\ UNCHANGED <<t1_site, t1_cycles, t1_c, t1_m, t1_cmd_id, t1_sent,
                   t1_elapsed, t1_resp, t1_meta, t1_seen, t1_replies>>
    /\ UNCHANGED othersA

NextA ==
    \/ T1Write
    \/ T1PollEmpty
    \/ T1PollLine
    \/ T1Timeout
    \/ T1AfterStop0
    \/ T1AfterVibOk
    \/ T1AfterVibErr
    \/ T1AfterVibRaise
    \/ T1AfterStopEnd


----------------------------------------------------------------------------
(* driver-vib/test2.py *)

\* READ_TIMEOUT = 0.3 s: the longest one readline() blocks
T2_READ_TIMEOUT == 300
\* read_reply(ser, timeout_s=2.0)
T2_REPLY_TIMEOUT == 2000
T2_AMP == 80
T2_ON_MS == 120
T2_OFF_MS == 120
T2_FREQ1 == 300
T2_FREQ2 == 240
T2_FREQ3 == 240

\* 1 << (motor_index_1based - 1)
motor_mask(motor_index_1based) == 2 ^ (motor_index_1based - 1)

\* f"S {mask} {amp}"
SLine(mask, amp) == <<"S", " ">> \o Str(mask) \o <<" ">> \o Str(amp)
XLine == <<"X">>
\* f"F {FREQ1} {FREQ2} {FREQ3}"
FLine(f1, f2, f3) == <<"F", " ">> \o Str(f1) \o <<" ">> \o Str(f2) \o <<" ">> \o Str(f3)

\* send_line: (line.strip() + "\n")
WireLine(line) == Strip(line) \o <<"\n">>

CmdStep(line, inner) == [op |-> "cmd", line |-> line, inner |-> inner, ms |-> 0]
SleepStep(ms) == [op |-> "sleep", line |-> <<>>, inner |-> FALSE, ms |-> ms]

\* vibrate_once: cmd_expect_ok(S), sleep(on_ms), cmd_expect_ok(X)
T2VibrateOnce(mask, amp, on_ms) ==
    <<CmdStep(SLine(mask, amp), FALSE), SleepStep(on_ms), CmdStep(XLine, FALSE)>>

\* vibrate_n: for i in range(n): vibrate_once; if i != n - 1: sleep(off_ms)
RECURSIVE T2VibrateNFrom(_, _, _, _, _, _)
T2VibrateNFrom(i, mask, amp, n, on_ms, off_ms) ==
    IF i >= n THEN <<>>
    ELSE T2VibrateOnce(mask, amp, on_ms)
           \o (IF i # n - 1 THEN <<SleepStep(off_ms)>> ELSE <<>>)
           \o T2VibrateNFrom(i + 1, mask, amp, n, on_ms, off_ms)

T2VibrateN(mask, amp, n, on_ms, off_ms) ==
    T2VibrateNFrom(0, mask, amp, n, on_ms, off_ms)

\* the statements of main's outer try, in order; inner marks the one command
\* wrapped in "try: ... except Exception: pass"
T2Main ==
    <<CmdStep(XLine, TRUE)>>
      \o <<CmdStep(FLine(T2_FREQ1, T2_FREQ2, T2_FREQ3), FALSE)>>
      \o T2VibrateN(motor_mask(1), T2_AMP, 1, T2_ON_MS, T2_OFF_MS)
      \o T2VibrateN(motor_mask(2), T2_AMP, 2, T2_ON_MS, T2_OFF_MS)
      \o T2VibrateN(motor_mask(3), T2_AMP, 3, T2_ON_MS, T2_OFF_MS)
      \o <<CmdStep(XLine, FALSE)>>

\* variant: every command sits in a try/except that swallows
T2Swallowed_all(ip) == TRUE

\* lines 78-81: is the exception of statement ip swallowed?
T2Swallowed(ip) == T2Main[ip].inner

\* variant: only OK ends the loop
T2IsReply_okOnly(resp) == StartsWith(resp, OK)

\* line 38: resp.startswith("OK") or resp.startswith("ERR")
T2IsReply(resp) == StartsWith(resp, OK) \/ StartsWith(resp, ERR)

\* The device answers each command it received once, with an OK or an ERR
\* line, after any delay; it may also print lines that are no reply.
T2ReplyTexts ==
    {[text |-> <<"O", "K", "\r", "\n">>, kind |-> "OK"],
     [text |-> <<"O", "K", " ", "f", "r", "e", "q", "\n">>, kind |-> "OK"],
     [text |-> <<"E", "R", "R", " ", "b", "a", "d", "\r", "\n">>, kind |-> "ERR"]}
T2NoiseTexts ==
    {[text |-> <<"\r", "\n">>, kind |-> "noise"],
     [text |-> <<"b", "o", "o", "t", " ", "O", "K", "\n">>, kind |-> "noise"]}

othersB == <<varsA, varsC, varsD>>

\* where main goes after statement ip ended normally (line 108 after the last)
T2Goto(ip) ==
    IF ip > Len(T2Main) THEN "close"
    ELSE IF T2Main[ip].op = "cmd" THEN "send" ELSE "sleep"

StartB ==
    /\ t2_pc = "send"
    /\ t2_ip = 1
    /\ t2_sent = <<>>
    /\ t2_elapsed = 0
    /\ t2_resp = <<>>
    /\ t2_for = 0
    /\ t2_kind = "none"
    /\ t2_skipped = FALSE
    /\ t2_passed = FALSE
    /\ t2_outcomes = <<>>
    /\ t2_pending = <<>>
    /\ t2_wire = <<>>
    /\ t2_closed = 0

\* lines 27-29, 33, 44: send_line, then read_reply takes its deadline
T2Send ==
    /\ t2_pc = "send"
    /\ t2_sent' = Append(t2_sent, WireLine(T2Main[t2_ip].line))
    /\ t2_pending' = Append(t2_pending, t2_ip)
    /\ t2_elapsed' = 0
    /\ t2_resp' = <<>>
    /\ t2_for' = 0
    /\ t2_kind' = "none"
    /\ t2_skipped' = FALSE
    /\ t2_passed' = FALSE
    /\ t2_pc' = "read"
    /\ UNCHANGED <<t2_ip, t2_outcomes, t2_wire, t2_closed>>
    /\ UNCHANGED othersB

\* lines 34-37: one loop iteration whose readline() timed out (b"")
T2ReadEmpty ==
    /\ t2_pc = "read"
    /\ t2_elapsed < T2_REPLY_TIMEOUT
    /\ t2_wire = <<>>
    /\ t2_elapsed' = t2_elapsed + T2_READ_TIMEOUT
    /\ UNCHANGED <<t2_pc, t2_ip, t2_sent, t2_resp, t2_for, t2_kind, t2_skipped, t2_passed,
                   t2_outcomes, t2_pending, t2_wire, t2_closed>>
    /\ UNCHANGED othersB

\* lines 34-39, 45-48: one loop iteration whose readline() got a line after
\* d ms; an OK/ERR line ends read_reply, and cmd_expect_ok raises on ERR
T2ReadLine ==
    /\ t2_pc = "read"
    /\ t2_elapsed < T2_REPLY_TIMEOUT
    /\ t2_wire # <<>>
    /\ \E d \in {0, T2_READ_TIMEOUT} :
         LET ln == Head(t2_wire)
             resp == Strip(ln.text)
         IN
         /\ t2_elapsed' = t2_elapsed + d
         /\ t2_wire' = Tail(t2_wire)
         /\ IF resp # <<>> /\ T2IsReply(resp)
            THEN /\ t2_resp' = resp
                 /\ t2_for' = ln.for
                 /\ t2_kind' = ln.kind
                 /\ t2_pc' = IF StartsWith(resp, ERR) THEN "raisedErr" ELSE "returned"
                 /\ t2_outcomes' = Append(t2_outcomes,
                                      IF StartsWith(resp, ERR) THEN "ERR" ELSE "OK")
                 /\ UNCHANGED <<t2_skipped, t2_passed>>
            ELSE /\ t2_skipped' = (t2_skipped \/ ln.kind \in {"OK", "ERR"})
                 /\ t2_passed' = (t2_passed \/ ln.kind \notin {"OK", "ERR"})
                 /\ UNCHANGED <<t2_resp, t2_for, t2_kind, t2_pc, t2_outcomes>>
    /\ UNCHANGED <<t2_ip, t2_sent, t2_pending, t2_closed>>
    /\ UNCHANGED othersB

\* line 40: raise TimeoutError
T2Timeout ==
    /\ t2_pc = "read"
    /\ t2_elapsed >= T2_REPLY_TIMEOUT
    /\ t2_pc' = "raisedTimeout"
    /\ t2_outcomes' = Append(t2_outcomes, "timeout")
    /\ UNCHANGED <<t2_ip, t2_sent, t2_elapsed, t2_resp, t2_for, t2_kind,
                   t2_skipped, t2_passed, t2_pending, t2_wire, t2_closed>>
    /\ UNCHANGED othersB

\* cmd_expect_ok returned: the next statement of main
T2Returned ==
    /\ t2_pc = "returned"
    /\ t2_ip' = t2_ip + 1
    /\ t2_pc' = T2Goto(t2_ip + 1)
    /\ UNCHANGED <<t2_sent, t2_elapsed, t2_resp, t2_for, t2_kind, t2_skipped, t2_passed,
                   t2_outcomes, t2_pending, t2_wire, t2_closed>>
    /\ UNCHANGED othersB

\* lines 78-81: the exception of the first X is swallowed
T2Swallow ==
    /\ t2_pc \in {"raisedErr", "raisedTimeout"}
    /\ T2Swallowed(t2_ip)
    /\ t2_ip' = t2_ip + 1
    /\ t2_pc' = T2Goto(t2_ip + 1)
    /\ UNCHANGED <<t2_sent, t2_elapsed, t2_resp, t2_for, t2_kind, t2_skipped, t2_passed,
                   t2_outcomes, t2_pending, t2_wire, t2_closed>>
    /\ UNCHANGED othersB

\* any other exception leaves the outer try: on to finally
T2Propagate ==
    /\ t2_pc \in {"raisedErr", "raisedTimeout"}
    /\ ~T2Swallowed(t2_ip)
    /\ t2_pc' = "close"
    /\ UNCHANGED <<t2_ip, t2_sent, t2_elapsed, t2_resp, t2_for, t2_kind,
                   t2_skipped, t2_passed, t2_outcomes, t2_pending, t2_wire, t2_closed>>
    /\ UNCHANGED othersB

\* lines 57, 65: time.sleep
T2Sleep ==
    /\ t2_pc = "sleep"
    /\ t2_ip' = t2_ip + 1
    /\ t2_pc' = T2Goto(t2_ip + 1)
    /\ UNCHANGED <<t2_sent, t2_elapsed, t2_resp, t2_for, t2_kind, t2_skipped, t2_passed,
                   t2_outcomes, t2_pending, t2_wire, t2_closed>>
    /\ UNCHANGED othersB

\* lines 107-108: finally: ser.close()
T2Close ==
    /\ t2_pc = "close"
    /\ t2_closed' = t2_closed + 1
    /\ t2_pc' = "closed"
    /\ UNCHANGED <<t2_ip, t2_sent, t2_elapsed, t2_resp, t2_for, t2_kind,
                   t2_skipped, t2_passed, t2_outcomes, t2_pending, t2_wire>>
    /\ UNCHANGED othersB

\* the device answers the oldest command it has not answered
T2DevReply ==
    /\ t2_pc # "closed"
    /\ t2_pending # <<>>
    /\ \E r \in T2ReplyTexts :
         t2_wire' = Append(t2_wire, [text |-> r.text, kind |-> r.kind,
                                     for |-> Head(t2_pending)])
    /\ t2_pending' = Tail(t2_pending)
    /\ UNCHANGED <<t2_pc, t2_ip, t2_sent, t2_elapsed, t2_resp, t2_for, t2_kind,
                   t2_skipped, t2_passed, t2_outcomes, t2_closed>>
    /\ UNCHANGED othersB

\* the device prints a line that answers nothing
T2DevNoise ==
    /\ t2_pc # "closed"
    /\ Len(t2_wire) < MaxWire
    /\ \E r \in T2NoiseTexts :
         t2_wire' = Append(t2_wire, [text |-> r.text, kind |-> r.kind, for |-> 0])
    /\ UNCHANGED <<t2_pc, t2_ip, t2_sent, t2_elapsed, t2_resp, t2_for, t2_kind,
                   t2_skipped, t2_passed, t2_outcomes, t2_pending, t2_closed>>
    /\ UNCHANGED othersB

NextB ==
    \/ T2Send
    \/ T2ReadEmpty
    \/ T2ReadLine
    \/ T2Timeout
    \/ T2Returned
    \/ T2Swallow
    \/ T2Propagate
    \/ T2Sleep
    \/ T2Close
    \/ T2DevReply
    \/ T2DevNoise

----------------------------------------------------------------------------
(* driver-vib-udp/test.py: vibrate_n and vibrate_once *)

\* the arguments tried: PWM duties, pulse lengths and gaps (ms)
UdpAmps == {0, 80, 255}
UdpOnMs == {120}
UdpOffMs == {0, 120}

UdpSend(line) == [ev |-> "send", line |-> WireLine(line), ms |-> 0, why |-> "-"]
UdpSleep(ms, why) == [ev |-> "sleep", line |-> <<>>, ms |-> ms, why |-> why]

\* line 63: for i in range(n): is there another iteration?
UdpInRange(i, n) == i < n

\* variant: off by one, the gap follows the last pulse too
UdpNotLast_offByOne(i, n) == i # n

\* line 65: if i != n - 1
UdpNotLast(i, n) == i # n - 1

othersC == <<varsA, varsB, varsD>>

\* a call vibrate_n(ser, mask, amp, n, on_ms, off_ms)
StartC ==
    /\ udp_n \in 0..MaxN
    /\ udp_mask \in {motor_mask(k) : k \in 1..3}
    /\ udp_amp \in UdpAmps
    /\ udp_on_ms \in UdpOnMs
    /\ udp_off_ms \in UdpOffMs
    /\ udp_i = 0
    /\ udp_pc = "for"
    /\ udp_log = <<>>

\* line 63: the loop takes its next i
UdpFor ==
    /\ udp_pc = "for"
    /\ UdpInRange(udp_i, udp_n)
    /\ udp_pc' = "start"
    /\ UNCHANGED <<udp_n, udp_mask, udp_amp, udp_on_ms, udp_off_ms, udp_i, udp_log>>
    /\ UNCHANGED othersC

\* line 63: range(n) is exhausted: vibrate_n returns
UdpReturn ==
    /\ udp_pc = "for"
    /\ ~UdpInRange(udp_i, udp_n)
    /\ udp_pc' = "done"
    /\ UNCHANGED <<udp_n, udp_mask, udp_amp, udp_on_ms, udp_off_ms, udp_i, udp_log>>
    /\ UNCHANGED othersC

\* line 53: send_line(ser, f"S {mask} {amp}")
UdpStart ==
    /\ udp_pc = "start"
    /\ udp_log' = Append(udp_log, UdpSend(SLine(udp_mask, udp_amp)))
    /\ udp_pc' = "on"
    /\ UNCHANGED <<udp_n, udp_mask, udp_amp, udp_on_ms, udp_off_ms, udp_i>>
    /\ UNCHANGED othersC

\* line 54: time.sleep(on_ms / 1000.0)
UdpOn ==
    /\ udp_pc = "on"
    /\ udp_log' = Append(udp_log, UdpSleep(udp_on_ms, "on"))
    /\ udp_pc' = "stop"
    /\ UNCHANGED <<udp_n, udp_mask, udp_amp, udp_on_ms, udp_off_ms, udp_i>>
    /\ UNCHANGED othersC

\* line 55: send_line(ser, "X")
UdpStop ==
    /\ udp_pc = "stop"
    /\ udp_log' = Append(udp_log, UdpSend(XLine))
    /\ udp_pc' = "between"
    /\ UNCHANGED <<udp_n, udp_mask, udp_amp, udp_on_ms, udp_off_ms, udp_i>>
    /\ UNCHANGED othersC

\* lines 65-66: not the last pulse: time.sleep(off_ms / 1000.0)
UdpOff ==
    /\ udp_pc = "between"
    /\ UdpNotLast(udp_i, udp_n)
    /\ udp_log' = Append(udp_log, UdpSleep(udp_off_ms, "off"))
    /\ udp_i' = udp_i + 1
    /\ udp_pc' = "for"
    /\ UNCHANGED <<udp_n, udp_mask, udp_amp, udp_on_ms, udp_off_ms>>
    /\ UNCHANGED othersC

\* line 65: the last pulse: no sleep
UdpLast ==
    /\ udp_pc = "between"
    /\ ~UdpNotLast(udp_i, udp_n)
    /\ udp_i' = udp_i + 1
    /\ udp_pc' = "for"
    /\ UNCHANGED <<udp_n, udp_mask, udp_amp, udp_on_ms, udp_off_ms, udp_log>>
    /\ UNCHANGED othersC

NextC ==
    \/ UdpFor
    \/ UdpReturn
    \/ UdpStart
    \/ UdpOn
    \/ UdpStop
    \/ UdpOff
    \/ UdpLast

----------------------------------------------------------------------------
(* driver-vib-udp/vib-test-1.py *)

GROUP_ID == 3
TRIALS == 10
VT_AMP == 80
PULSE_MS == 120
\* INTER_TRIAL_S = 0.8
INTER_TRIAL_MS == 800
\* key_q.get(timeout=10.0)
KEY_TIMEOUT_MS == 10000
\* time.sleep(0.05) between the doubled init commands
VT_INIT_GAP_MS == 50
VT_FREQ1 == 300
VT_FREQ2 == 240
VT_FREQ3 == 240

\* lines 125-132: X, sleep, X, F, sleep, F
VtInitScript ==
    <<CmdStep(XLine, FALSE), SleepStep(VT_INIT_GAP_MS), CmdStep(XLine, FALSE),
      CmdStep(FLine(VT_FREQ1, VT_FREQ2, VT_FREQ3), FALSE),
      SleepStep(VT_INIT_GAP_MS),
      CmdStep(FLine(VT_FREQ1, VT_FREQ2, VT_FREQ3), FALSE)>>

VtLine(line, by) == [line |-> WireLine(line), by |-> by]

\* f"S 1 {amp}"
VtStartLine(amp) == <<"S", " ", "1", " ">> \o Str(amp)

\* variant: pulse_ms handed to Timer as seconds
TimerDue_seconds(now, pulse_ms) == now + pulse_ms * 1000

\* threading.Timer(pulse_ms / 1000.0, ...): when the timer started at now is due
TimerDue(now, pulse_ms) == now + pulse_ms

Row(group_id, trial_index, ts_cmd, ts_key, duration) ==
    [group_id |-> group_id, trial_index |-> trial_index, ts_command_send |-> ts_cmd,
     ts_keyboard_down |-> ts_key, duration |-> duration]

SameKey(r, q) == r.group_id = q.group_id /\ r.trial_index = q.trial_index

\* variant: a plain insert into a table without the primary key
DbInsert_noReplace(db, row) == db \cup {row}

\* db_insert: INSERT OR REPLACE under PRIMARY KEY (group_id, trial_index)
DbInsert(db, row) == {r \in db : ~SameKey(r, row)} \cup {row}

\* what test_log.db may hold when the script starts: nothing (init_db creates
\* the table), or an earlier run of the same group and a row of another group
VtEarlierRun ==
    {Row(GROUP_ID, t, -5000, -4700, 300) : t \in 1..TRIALS}
      \cup {Row(GROUP_ID + 1, 1, -9000, -8800, 200)}

\* range(1, TRIALS + 1): where main goes after trial
VtAfterTrial(trial) == IF trial + 1 <= TRIALS THEN "drain" ELSE "final"

othersD == <<varsA, varsB, varsC>>

StartD ==
    /\ vt_pc = "init"
    /\ vt_ip = 1
    /\ vt_trial = 1
    /\ vt_now = 0
    /\ vt_key_q = <<>>
    /\ vt_ts_cmd = 0
    /\ vt_ts_key = 0
    /\ vt_timers = {}
    /\ vt_wake = 0
    /\ vt_sent = <<>>
    /\ vt_db \in {{}, VtEarlierRun}
    /\ vt_outcome = <<>>
    /\ vt_written = {}
    /\ vt_presses = 0
    /\ vt_eps = 0
    /\ vt_interrupted = FALSE
    /\ vt_open = TRUE

\* is main blocked in a sleep or an empty-queue get?
VtBlocked ==
    \/ vt_pc \in {"initSleep", "sleep"}
    \/ vt_pc = "wait" /\ vt_key_q = <<>>

\* lines 125-132: a send_line of the init sequence
VtInitSend ==
    /\ vt_pc = "init"
    /\ vt_ip <= Len(VtInitScript)
    /\ VtInitScript[vt_ip].op = "cmd"
    /\ vt_sent' = Append(vt_sent, VtLine(VtInitScript[vt_ip].line, "main"))
    /\ vt_ip' = vt_ip + 1
    /\ UNCHANGED <<vt_pc, vt_trial, vt_now, vt_key_q, vt_ts_cmd, vt_ts_key,
                   vt_timers, vt_wake, vt_db, vt_outcome, vt_written, vt_presses,
                   vt_eps, vt_interrupted, vt_open>>
    /\ UNCHANGED othersD

\* lines 126, 131: time.sleep(0.05) starts
VtInitSleep ==
    /\ vt_pc = "init"
    /\ vt_ip <= Len(VtInitScript)
    /\ VtInitScript[vt_ip].op = "sleep"
    /\ vt_wake' = vt_now + VtInitScript[vt_ip].ms
    /\ vt_pc' = "initSleep"
    /\ UNCHANGED <<vt_ip, vt_trial, vt_now, vt_key_q, vt_ts_cmd, vt_ts_key,
                   vt_timers, vt_sent, vt_db, vt_outcome, vt_written, vt_presses,
                   vt_eps, vt_interrupted, vt_open>>
    /\ UNCHANGED othersD

\* lines 126, 131: time.sleep(0.05) ends
VtInitWake ==
    /\ vt_pc = "initSleep"
    /\ vt_now >= vt_wake
    /\ vt_ip' = vt_ip + 1
    /\ vt_pc' = "init"
    /\ UNCHANGED <<vt_trial, vt_now, vt_key_q, vt_ts_cmd, vt_ts_key, vt_timers,
                   vt_wake, vt_sent, vt_db, vt_outcome, vt_written, vt_presses,
                   vt_eps, vt_interrupted, vt_open>>
    /\ UNCHANGED othersD

\* line 138: the trial loop starts
VtInitDone ==
    /\ vt_pc = "init"
    /\ vt_ip > Len(VtInitScript)
    /\ vt_pc' = "drain"
    /\ UNCHANGED <<vt_ip, vt_trial, vt_now, vt_key_q, vt_ts_cmd, vt_ts_key,
                   vt_timers, vt_wake, vt_sent, vt_db, vt_outcome, vt_written,
                   vt_presses, vt_eps, vt_interrupted, vt_open>>
    /\ UNCHANGED othersD

\* lines 140-142: key_q.get_nowait() removes a stale event
VtDrainGet ==
    /\ vt_pc = "drain"
    /\ vt_key_q # <<>>
    /\ vt_key_q' = Tail(vt_key_q)
    /\ UNCHANGED <<vt_pc, vt_ip, vt_trial, vt_now, vt_ts_cmd, vt_ts_key, vt_timers,
                   vt_wake, vt_sent, vt_db, vt_outcome, vt_written, vt_presses,
                   vt_eps, vt_interrupted, vt_open>>
    /\ UNCHANGED othersD

\* lines 143-144: Empty: break
VtDrainEmpty ==
    /\ vt_pc = "drain"
    /\ vt_key_q = <<>>
    /\ vt_pc' = "stamp"
    /\ UNCHANGED <<vt_ip, vt_trial, vt_now, vt_key_q, vt_ts_cmd, vt_ts_key,
                   vt_timers, vt_wake, vt_sent, vt_db, vt_outcome, vt_written,
                   vt_presses, vt_eps, vt_interrupted, vt_open>>
    /\ UNCHANGED othersD

\* line 92: ts_command_send = time.time()
VtStamp ==
    /\ vt_pc = "stamp"
    /\ vt_ts_cmd' = vt_now
    /\ vt_pc' = "sendS"
    /\ UNCHANGED <<vt_ip, vt_trial, vt_now, vt_key_q, vt_ts_key, vt_timers,
                   vt_wake, vt_sent, vt_db, vt_outcome, vt_written, vt_presses,
                   vt_eps, vt_interrupted, vt_open>>
    /\ UNCHANGED othersD

\* line 93: send_line(ser, f"S 1 {amp}")
VtSendS ==
    /\ vt_pc = "sendS"
    /\ vt_sent' = Append(vt_sent, VtLine(VtStartLine(VT_AMP), "main"))
    /\ vt_pc' = "timer"
    /\ UNCHANGED <<vt_ip, vt_trial, vt_now, vt_key_q, vt_ts_cmd, vt_ts_key,
                   vt_timers, vt_wake, vt_db, vt_outcome, vt_written, vt_presses,
                   vt_eps, vt_interrupted, vt_open>>
    /\ UNCHANGED othersD

\* line 96: threading.Timer(pulse_ms / 1000.0, lambda: send_line(ser, "X")).start()
VtStartTimer ==
    /\ vt_pc = "timer"
    /\ vt_timers' = vt_timers \cup {[trial |-> vt_trial, due |-> TimerDue(vt_now, PULSE_MS)]}
    /\ vt_pc' = "get"
    /\ UNCHANGED <<vt_ip, vt_trial, vt_now, vt_key_q, vt_ts_cmd, vt_ts_key,
                   vt_wake, vt_sent, vt_db, vt_outcome, vt_written, vt_presses,
                   vt_eps, vt_interrupted, vt_open>>
    /\ UNCHANGED othersD

\* line 151: key_q.get(timeout=10.0) takes its deadline
VtGetCall ==
    /\ vt_pc = "get"
    /\ vt_wake' = vt_now + KEY_TIMEOUT_MS
    /\ vt_pc' = "wait"
    /\ UNCHANGED <<vt_ip, vt_trial, vt_now, vt_key_q, vt_ts_cmd, vt_ts_key,
                   vt_timers, vt_sent, vt_db, vt_outcome, vt_written, vt_presses,
                   vt_eps, vt_interrupted, vt_open>>
    /\ UNCHANGED othersD

\* line 151: the queue holds an item: get returns it
VtGet ==
    /\ vt_pc = "wait"
    /\ vt_key_q # <<>>
    /\ vt_ts_key' = Head(vt_key_q)
    /\ vt_key_q' = Tail(vt_key_q)
    /\ vt_outcome' = Append(vt_outcome, "key")
    /\ vt_pc' = "insert"
    /\ UNCHANGED <<vt_ip, vt_trial, vt_now, vt_ts_cmd, vt_timers, vt_wake,
                   vt_sent, vt_db, vt_written, vt_presses, vt_eps, vt_interrupted,
                   vt_open>>
    /\ UNCHANGED othersD

\* lines 152-155: Empty after 10 s: skip logging, continue with the next trial
VtTimeout ==
    /\ vt_pc = "wait"
    /\ vt_key_q = <<>>
    /\ vt_now >= vt_wake
    /\ vt_outcome' = Append(vt_outcome, "timeout")
    /\ vt_trial' = vt_trial + 1
    /\ vt_pc' = VtAfterTrial(vt_trial)
    /\ UNCHANGED <<vt_ip, vt_now, vt_key_q, vt_ts_cmd, vt_ts_key, vt_timers,
                   vt_wake, vt_sent, vt_db, vt_written, vt_presses, vt_eps,
                   vt_interrupted, vt_open>>
    /\ UNCHANGED othersD

\* lines 157-162: duration, db_insert, then time.sleep(INTER_TRIAL_S) starts
VtInsert ==
    /\ vt_pc = "insert"
    /\ vt_db' = DbInsert(vt_db, Row(GROUP_ID, vt_trial, vt_ts_cmd, vt_ts_key,
                                    vt_ts_key - vt_ts_cmd))
    /\ vt_written' = vt_written \cup {vt_trial}
    /\ vt_wake' = vt_now + INTER_TRIAL_MS
    /\ vt_pc' = "sleep"
    /\ UNCHANGED <<vt_ip, vt_trial, vt_now, vt_key_q, vt_ts_cmd, vt_ts_key,
                   vt_timers, vt_sent, vt_outcome, vt_presses, vt_eps,
                   vt_interrupted, vt_open>>
    /\ UNCHANGED othersD

\* line 162: time.sleep(INTER_TRIAL_S) ends: the next trial
VtSleepDone ==
    /\ vt_pc = "sleep"
    /\ vt_now >= vt_wake
    /\ vt_trial' = vt_trial + 1
    /\ vt_pc' = VtAfterTrial(vt_trial)
    /\ UNCHANGED <<vt_ip, vt_now, vt_key_q, vt_ts_cmd, vt_ts_key, vt_timers,
                   vt_wake, vt_sent, vt_db, vt_outcome, vt_written, vt_presses,
                   vt_eps, vt_interrupted, vt_open>>
    /\ UNCHANGED othersD

\* line 165: the final safety stop
VtFinalStop ==
    /\ vt_pc = "final"
    /\ vt_sent' = Append(vt_sent, VtLine(XLine, "main"))
    /\ vt_pc' = "finally"
    /\ UNCHANGED <<vt_ip, vt_trial, vt_now, vt_key_q, vt_ts_cmd, vt_ts_key,
                   vt_timers, vt_wake, vt_db, vt_outcome, vt_written, vt_presses,
                   vt_eps, vt_interrupted, vt_open>>
    /\ UNCHANGED othersD

\* lines 168-170: Ctrl+C anywhere in the try block: send X
VtInterrupt ==
    /\ vt_pc \notin {"finally", "done"}
    /\ vt_interrupted' = TRUE
    /\ vt_sent' = Append(vt_sent, VtLine(XLine, "main"))
    /\ vt_pc' = "finally"
    /\ UNCHANGED <<vt_ip, vt_trial, vt_now, vt_key_q, vt_ts_cmd, vt_ts_key,
                   vt_timers, vt_wake, vt_db, vt_outcome, vt_written, vt_presses,
                   vt_eps, vt_open>>
    /\ UNCHANGED othersD

\* lines 171-177: listener.stop(), ser.close(), con.close()
VtFinally ==
    /\ vt_pc = "finally"
    /\ vt_open' = FALSE
    /\ vt_pc' = "done"
    /\ UNCHANGED <<vt_ip, vt_trial, vt_now, vt_key_q, vt_ts_cmd, vt_ts_key,
                   vt_timers, vt_wake, vt_sent, vt_db, vt_outcome, vt_written,
                   vt_presses, vt_eps, vt_interrupted>>
    /\ UNCHANGED othersD

\* lines 113-116: the listener thread sees SPACE go down
VtPress ==
    /\ vt_open
    /\ vt_presses < MaxPresses
    /\ vt_key_q' = Append(vt_key_q, vt_now)
    /\ vt_presses' = vt_presses + 1
    /\ UNCHANGED <<vt_pc, vt_ip, vt_trial, vt_now, vt_ts_cmd, vt_ts_key, vt_timers,
                   vt_wake, vt_sent, vt_db, vt_outcome, vt_written, vt_eps,
                   vt_interrupted, vt_open>>
    /\ UNCHANGED othersD

\* line 96: a due timer's thread runs send_line(ser, "X"); on a closed port
\* the write raises in that thread and nothing is sent
VtTimerFire ==
    /\ \E t \in vt_timers :
         /\ t.due <= vt_now
         /\ vt_timers' = vt_timers \ {t}
    /\ vt_sent' = IF vt_open THEN Append(vt_sent, VtLine(XLine, "timer")) ELSE vt_sent
    /\ UNCHANGED <<vt_pc, vt_ip, vt_trial, vt_now, vt_key_q, vt_ts_cmd, vt_ts_key,
                   vt_wake, vt_db, vt_outcome, vt_written, vt_presses, vt_eps,
                   vt_interrupted, vt_open>>
    /\ UNCHANGED othersD

\* the earliest instant something blocked or scheduled is due
VtDeadlines ==
    {t.due : t \in vt_timers} \cup (IF VtBlocked THEN {vt_wake} ELSE {})

\* main is blocked: time passes to the next deadline
VtAdvance ==
    /\ VtBlocked
    /\ \A d \in VtDeadlines : d > vt_now
    /\ vt_now' = CHOOSE d \in VtDeadlines : \A e \in VtDeadlines : d <= e
    /\ UNCHANGED <<vt_pc, vt_ip, vt_trial, vt_key_q, vt_ts_cmd, vt_ts_key,
                   vt_timers, vt_wake, vt_sent, vt_db, vt_outcome, vt_written,
                   vt_presses, vt_eps, vt_interrupted, vt_open>>
    /\ UNCHANGED othersD

\* main is running: a millisecond passes between two of its statements
VtTick ==
    /\ ~VtBlocked
    /\ vt_pc # "done"
    /\ vt_eps < MaxEps
    /\ vt_now' = vt_now + 1
    /\ vt_eps' = vt_eps + 1
    /\ UNCHANGED <<vt_pc, vt_ip, vt_trial, vt_key_q, vt_ts_cmd, vt_ts_key,
                   vt_timers, vt_wake, vt_sent, vt_db, vt_outcome, vt_written,
                   vt_presses, vt_interrupted, vt_open>>
    /\ UNCHANGED othersD

NextD ==
    \/ VtInitSend
    \/ VtInitSleep
    \/ VtInitWake
    \/ VtInitDone
    \/ VtDrainGet
    \/ VtDrainEmpty
    \/ VtStamp
    \/ VtSendS
    \/ VtStartTimer
    \/ VtGetCall
    \/ VtGet
    \/ VtTimeout
    \/ VtInsert
    \/ VtSleepDone
    \/ VtFinalStop
    \/ VtInterrupt
    \/ VtFinally
    \/ VtPress
    \/ VtTimerFire
    \/ VtAdvance
    \/ VtTick

----------------------------------------------------------------------------
(* The scripts not running *)

IdleA ==
    /\ t1_cycles = 0
    /\ t1_pc = "off"
    /\ t1_site = "stop0"
    /\ t1_c = 0
    /\ t1_m = 1
    /\ t1_cmd_id = 1
    /\ t1_sent = <<>>
    /\ t1_elapsed = 0
    /\ t1_resp = <<>>
    /\ t1_meta = NoMeta
    /\ t1_seen = FALSE
    /\ t1_replies = <<>>
    /\ t1_closed = 0

IdleB ==
    /\ t2_pc = "off"
    /\ t2_ip = 1
    /\ t2_sent = <<>>
    /\ t2_elapsed = 0
    /\ t2_resp = <<>>
    /\ t2_for = 0
    /\ t2_kind = "none"
    /\ t2_skipped = FALSE
    /\ t2_passed = FALSE
    /\ t2_outcomes = <<>>
    /\ t2_pending = <<>>
    /\ t2_wire = <<>>
    /\ t2_closed = 0

IdleC ==
    /\ udp_pc = "off"
    /\ udp_n = 0
    /\ udp_mask = 1
    /\ udp_amp = 0
    /\ udp_on_ms = 0
    /\ udp_off_ms = 0
    /\ udp_i = 0
    /\ udp_log = <<>>

IdleD ==
    /\ vt_pc = "off"
    /\ vt_ip = 1
    /\ vt_trial = 1
    /\ vt_now = 0
    /\ vt_key_q = <<>>
    /\ vt_ts_cmd = 0
    /\ vt_ts_key = 0
    /\ vt_timers = {}
    /\ vt_wake = 0
    /\ vt_sent = <<>>
    /\ vt_db = {}
    /\ vt_outcome = <<>>
    /\ vt_written = {}
    /\ vt_presses = 0
    /\ vt_eps = 0
    /\ vt_interrupted = FALSE
    /\ vt_open = FALSE

----------------------------------------------------------------------------
(* Specifications *)

InitA == StartA /\ IdleB /\ IdleC /\ IdleD
SpecAck == InitA /\ [][NextA]_vars

InitB == IdleA /\ StartB /\ IdleC /\ IdleD
SpecReply == InitB /\ [][NextB]_vars

InitC == IdleA /\ IdleB /\ StartC /\ IdleD
SpecVib == InitC /\ [][NextC]_vars

InitD == IdleA /\ IdleB /\ IdleC /\ StartD
SpecTrial == InitD /\ [][NextD]_vars

----------------------------------------------------------------------------
(* Properties: driver-vib/test.py *)

IsVib(line) == StartsWith(line, <<"VIB m=">>)
IsStop(line) == StartsWith(line, StopCmd)
VibIdx == {i \in DOMAIN t1_sent : IsVib(t1_sent[i])}
StopAfterLastVib ==
    \E j \in DOMAIN t1_sent : IsStop(t1_sent[j]) /\ \A i \in VibIdx : i < j

\* C1: send_cmd_wait_ack writes exactly one line "<cmd> id=<cmd_id>"; what it
\* returns is a line the device sent as the ACK or ERR of that very id (lines
\* that are empty, carry another tag or another id are never returned); when
\* it raises TimeoutError no ACK/ERR of cmd_id was read and nothing is returned.
C1_ReturnsOnlyOwnAck ==
    /\ t1_pc \in {"poll", "returned", "raised"} =>
         /\ Len(t1_sent) = t1_cmd_id
         /\ t1_sent[Len(t1_sent)] = CmdLine(T1Cmd, t1_cmd_id)
    /\ t1_pc = "returned" =>
         /\ t1_resp # <<>>
         /\ t1_meta.kind \in {"ACK", "ERR"}
         /\ t1_meta.id = t1_cmd_id
    /\ t1_pc = "raised" => ~t1_seen /\ t1_resp = <<>>

\* C6 as stated: whenever main has closed the port after sending at least one
\* VIB, a STOP was sent after the last VIB.
C6_StopAtEnd ==
    (t1_pc = "closed" /\ VibIdx # {}) => StopAfterLastVib

\* C6 as amended: when main has closed the port after sending at least one
\* VIB, a STOP was sent after the last VIB if every VIB was answered by an
\* ACK; if a VIB was answered by ERR or by nothing, that VIB is the last
\* line sent and no STOP follows it.
C6_StopAfterAckedRun ==
    (t1_pc = "closed" /\ VibIdx # {}) =>
        /\ Len(t1_replies) = Len(t1_sent)
        /\ IF \A i \in VibIdx : t1_replies[i] = "ACK"
           THEN StopAfterLastVib
           ELSE /\ ~StopAfterLastVib
                /\ Len(t1_sent) \in VibIdx
                /\ \A i \in VibIdx : i < Len(t1_sent) => t1_replies[i] = "ACK"

\* a run whose VIBs were all acknowledged ends with STOP and the port closed
C6_AckedRunStops ==
    /\ t1_pc = "closed"
    /\ t1_closed = 1
    /\ Cardinality(VibIdx) >= 3
    /\ \A i \in VibIdx : t1_replies[i] = "ACK"
    /\ IsStop(t1_sent[Len(t1_sent)])

----------------------------------------------------------------------------
(* Properties: driver-vib/test2.py *)

\* the cmd_expect_ok statements among the first ip statements of main
T2CmdsUpTo(ip) == Cardinality({k \in 1..ip : T2Main[k].op = "cmd"})

\* C2: read_reply returns the first line the device sent as an OK or ERR reply
\* (every other line is passed over, no reply line is), and raises
\* TimeoutError only when it read no reply line; cmd_expect_ok has sent its
\* line exactly once, returns only a reply that starts with OK and raises on
\* a reply that starts with ERR.
C2_ReadReplyContract ==
    /\ t2_pc \in {"read", "returned", "raisedErr", "raisedTimeout"} =>
         /\ Len(t2_sent) = T2CmdsUpTo(t2_ip)
         /\ t2_sent[Len(t2_sent)] = T2Main[t2_ip].line \o <<"\n">>
         /\ ~t2_skipped
    /\ t2_pc \in {"returned", "raisedErr"} =>
         /\ t2_resp # <<>>
         /\ t2_kind \in {"OK", "ERR"}
    /\ t2_pc = "returned" => t2_kind = "OK" /\ StartsWith(t2_resp, OK)
    /\ t2_pc = "raisedErr" => t2_kind = "ERR" /\ StartsWith(t2_resp, ERR)
    /\ t2_pc = "raisedTimeout" => t2_resp = <<>> /\ t2_kind = "none"

\* read_reply passed over a line that is no reply, then cmd_expect_ok raised
\* on the ERR line that followed
C2_ErrAfterNoise ==
    /\ t2_pc = "raisedErr"
    /\ t2_passed
    /\ t2_ip > 1

\* C7: "stop, no recovery": main always goes on after the first X, whatever
\* its outcome; once a later command got ERR or no reply, no further line is
\* sent; the port is closed exactly once on every path, at the very end.
C7_StopNoRecovery ==
    /\ \A i \in 2..Len(t2_outcomes) :
         t2_outcomes[i] # "OK" => Len(t2_sent) = i /\ Len(t2_outcomes) = i
    /\ t2_pc \in {"close", "closed"} => Len(t2_sent) >= 2
    /\ t2_closed = (IF t2_pc = "closed" THEN 1 ELSE 0)

\* the first X failed, the run went on, a later command failed, port closed
C7_SwallowedThenStopped ==
    /\ t2_pc = "closed"
    /\ Len(t2_outcomes) >= 4
    /\ t2_outcomes[1] # "OK"
    /\ t2_outcomes[Len(t2_outcomes)] # "OK"

\* C8: the reply cmd_expect_ok accepts (returns, or raises on) was sent by the
\* device in answer to the very command cmd_expect_ok sent.
C8_ReplyAnswersOwnCommand ==
    t2_pc \in {"returned", "raisedErr"} => t2_for = t2_ip

----------------------------------------------------------------------------
(* Properties: driver-vib-udp/test.py *)

UdpSends == SelectSeq(udp_log, LAMBDA e : e.ev = "send")
UdpOffWaits == SelectSeq(udp_log, LAMBDA e : e.ev = "sleep" /\ e.why = "off")
UdpIsS(e) == e.ev = "send" /\ e.line = SLine(udp_mask, udp_amp) \o <<"\n">>
UdpIsX(e) == e.ev = "send" /\ e.line = <<"X", "\n">>

\* C3: vibrate_n sends S, X, S, X, ... strictly alternating; when it returns
\* it has sent n S and n X, the last line sent is X, and it slept off_ms
\* exactly between consecutive pulses: after every X but the last, never
\* after the last (n-1 times for n >= 1, never for n = 0).
C3_VibrateN ==
    /\ \A k \in DOMAIN UdpSends :
         IF k % 2 = 1 THEN UdpIsS(UdpSends[k]) ELSE UdpIsX(UdpSends[k])
    /\ \A j \in DOMAIN udp_log :
         (udp_log[j].ev = "sleep" /\ udp_log[j].why = "off") =>
            /\ udp_log[j].ms = udp_off_ms
            /\ j > 1 /\ UdpIsX(udp_log[j - 1])
            /\ j < Len(udp_log) => UdpIsS(udp_log[j + 1])
    /\ udp_pc = "done" =>
         /\ Len(UdpSends) = 2 * udp_n
         /\ Len(UdpOffWaits) = (IF udp_n >= 1 THEN udp_n - 1 ELSE 0)
         /\ udp_n >= 1 => UdpIsX(udp_log[Len(udp_log)])
         /\ \A j \in DOMAIN udp_log :
              (UdpIsX(udp_log[j]) /\ j < Len(udp_log)) =>
                 (udp_log[j + 1].ev = "sleep" /\ udp_log[j + 1].why = "off")

\* vibrate_n returned after several pulses with a gap between them
C3_SeveralPulsesDone ==
    /\ udp_pc = "done"
    /\ udp_n >= 2
    /\ Len(UdpOffWaits) >= 1

----------------------------------------------------------------------------
(* Properties: driver-vib-udp/vib-test-1.py *)

VtStarts == SelectSeq(vt_sent, LAMBDA e : e.line = <<"S", " ", "1", " ", "8", "0", "\n">>)

C5_TrialsAndRows ==
    /\ Len(VtStarts) \in {Len(vt_outcome), Len(vt_outcome) + 1}
    /\ Len(vt_outcome) <= TRIALS
    /\ (vt_pc = "done" /\ ~vt_interrupted) =>
          Len(vt_outcome) = TRIALS /\ Len(VtStarts) = TRIALS
    /\ \A t \in 1..(vt_trial - 1) :
          t \in DOMAIN vt_outcome /\ (t \in vt_written <=> vt_outcome[t] = "key")
    /\ \A t \in vt_written : t \in DOMAIN vt_outcome /\ vt_outcome[t] = "key"
    /\ \A t \in vt_written :
          \E r \in vt_db :
             /\ r.group_id = GROUP_ID /\ r.trial_index = t
             /\ r.ts_command_send >= 0
             /\ r.duration = r.ts_keyboard_down - r.ts_command_send
    /\ vt_pc = "sleep" =>
          Row(GROUP_ID, vt_trial, vt_ts_cmd, vt_ts_key, vt_ts_key - vt_ts_cmd) \in vt_db
    /\ \A r, q \in vt_db : SameKey(r, q) => r = q
    /\ Cardinality({r \in vt_db : r.group_id = GROUP_ID}) <= TRIALS

\* an uninterrupted run over an earlier run's table ended with some trials
\* answered and some timed out
C5_MixedRunDone ==
    /\ vt_pc = "done"
    /\ ~vt_interrupted
    /\ vt_written # {}
    /\ \E t \in DOMAIN vt_outcome : vt_outcome[t] = "timeout"
    /\ Cardinality(vt_db) = TRIALS + 1

\* C9: every logged row has ts_keyboard_down >= ts_command_send.
C9_NonNegativeDuration ==
    \A r \in vt_db : r.ts_keyboard_down >= r.ts_command_send

=============================================================================
